---- MODULE Spec2Model ----
(***************************************************************************)
(* A model of the WeType hotword tools (wetype_raw.py, wetype_rw.py).      *)
(*                                                                         *)
(* Text is modelled character by character: a text is a sequence of        *)
(* one-character strings.  The store file is such a text; the JSON that    *)
(* the tools write and read back is produced and parsed character by       *)
(* character, so that the bracket matching of the scanner, the escaping of *)
(* the encoder and the parsing of the decoder are the code's own.          *)
(***************************************************************************)
EXTENDS Integers, Sequences, FiniteSets, TLC

(***************************************************************************)
(* Characters.                                                             *)
(***************************************************************************)
Q  == "\""
BS == "\\"
NL == "\n"
SP == " "
\* A byte that is no valid UTF-8: data.decode('utf-8', errors='ignore') drops it.
BadByte == "<AB>"

Digits == <<"0", "1", "2", "3", "4", "5", "6", "7", "8", "9">>
DigitSet == {Digits[i] : i \in 1..10}

\* The characters str.strip() and the JSON scanner treat as whitespace.
StripSpace == {SP, NL, "\t", "\r", "\f"}
JsonSpace  == {SP, NL, "\t", "\r"}
\* Characters below 0x20, which a strict JSON string may not hold unescaped.
ControlChars == {NL, "\t", "\r", "\f", "<BS>", "<01>"}

KeyName == <<"h", "o", "t", "W", "o", "r", "d", "L", "i", "s", "t">>
HW_ID   == <<"h", "w", "_", "i", "d">>
KEY     == <<"k", "e", "y">>
TEXT    == <<"t", "e", "x", "t">>

Min(S) == CHOOSE x \in S : \A y \in S : x <= y

(***************************************************************************)
(* JSON values, as Python holds them after json.loads: a str, an int, a    *)
(* list, or a dict (an ordered sequence of <<name, value>> pairs with      *)
(* distinct names).                                                        *)
(***************************************************************************)
JStr(s)  == [t |-> "str", v |-> s]
JNum(d)  == [t |-> "num", v |-> d]
JArr(xs) == [t |-> "arr", v |-> xs]
JObj(ms) == [t |-> "obj", v |-> ms]

IsDict(x) == x.t = "obj"
IsStr(x)  == x.t = "str"

\* name in d
HasField(d, name) == \E i \in 1..Len(d.v) : d.v[i][1] = name

\* d[name]
Field(d, name) == d.v[CHOOSE i \in 1..Len(d.v) : d.v[i][1] = name][2]

\* d[name] = val on a dict's pair sequence: a repeated name keeps its first
\* position and takes the last value.
DictSet(ms, name, val) ==
    IF \E i \in 1..Len(ms) : ms[i][1] = name
    THEN [i \in 1..Len(ms) |-> IF ms[i][1] = name THEN <<name, val>> ELSE ms[i]]
    ELSE Append(ms, <<name, val>>)

\* str(n) for n >= 0
RECURSIVE IntStr(_)
IntStr(n) == IF n < 10 THEN <<Digits[n + 1]>>
             ELSE IntStr(n \div 10) \o <<Digits[(n % 10) + 1]>>

(***************************************************************************)
(* json.dumps(x, ensure_ascii=False): the encoder of the writers.          *)
(***************************************************************************)
\* ESCAPE_DCT without its entries: every character written as it is.
EscapeCharNone(c) == <<c>>

\* The escape of one character inside a JSON string (ESCAPE_DCT).
EscapeChar(c) ==
    CASE c = Q      -> <<BS, Q>>
      [] c = BS     -> <<BS, BS>>
      [] c = NL     -> <<BS, "n">>
      [] c = "\t"   -> <<BS, "t">>
      [] c = "\r"   -> <<BS, "r">>
      [] c = "\f"   -> <<BS, "f">>
      [] c = "<BS>" -> <<BS, "b">>
      [] c = "<01>" -> <<BS, "u", "0", "0", "0", "1">>
      [] OTHER      -> <<c>>

RECURSIVE Escape(_)
Escape(s) == IF s = <<>> THEN <<>> ELSE EscapeChar(Head(s)) \o Escape(Tail(s))

RECURSIVE Dumps(_)
RECURSIVE DumpItems(_)
RECURSIVE DumpMembers(_)
DumpItems(xs) ==
    IF xs = <<>> THEN <<>>
    ELSE Dumps(Head(xs))
         \o (IF Len(xs) > 1 THEN <<",", SP>> ELSE <<>>)
         \o DumpItems(Tail(xs))

DumpMembers(ms) ==
    IF ms = <<>> THEN <<>>
    ELSE <<Q>> \o Escape(Head(ms)[1]) \o <<Q, ":", SP>> \o Dumps(Head(ms)[2])
         \o (IF Len(ms) > 1 THEN <<",", SP>> ELSE <<>>)
         \o DumpMembers(Tail(ms))

Dumps(x) ==
    CASE x.t = "str" -> <<Q>> \o Escape(x.v) \o <<Q>>
      [] x.t = "num" -> x.v
      [] x.t = "arr" -> <<"[">> \o DumpItems(x.v) \o <<"]">>
      [] x.t = "obj" -> <<"{">> \o DumpMembers(x.v) \o <<"}">>

(***************************************************************************)
(* json.loads(s): the decoder.  A parse step yields [ok, val, pos]: pos is *)
(* the index after the value.  The literals true, false and null, floats,  *)
(* negative numbers and the \uXXXX escapes outside UnicodeEscape need      *)
(* characters the modelled texts never hold and are left out.              *)
(***************************************************************************)
ParseFail == [ok |-> FALSE, val |-> <<>>, pos |-> 0]
ParseOk(val, pos) == [ok |-> TRUE, val |-> val, pos |-> pos]

RECURSIVE SkipSpace(_, _)
SkipSpace(s, i) ==
    IF i <= Len(s) /\ s[i] \in JsonSpace THEN SkipSpace(s, i + 1) ELSE i

\* The character an escape \c stands for (BACKSLASH in json.decoder).
Unescape(c) ==
    CASE c = Q    -> Q
      [] c = BS   -> BS
      [] c = "/"  -> "/"
      [] c = "n"  -> NL
      [] c = "t"  -> "\t"
      [] c = "r"  -> "\r"
      [] c = "f"  -> "\f"
      [] c = "b"  -> "<BS>"
      [] OTHER    -> "<invalid>"

\* The character \uXXXX stands for (_decode_uXXXX and chr), for the code
\* points the modelled texts hold.
UnicodeEscape(hex) ==
    CASE hex = <<"0", "0", "0", "1">> -> "<01>"
      [] hex = <<"0", "0", "4", "1">> -> "A"
      [] hex = <<"0", "0", "5", "d">> -> "]"
      [] hex = <<"0", "0", "5", "D">> -> "]"
      [] OTHER -> "<invalid>"

\* py_scanstring from the character after the opening quote, strict.
RECURSIVE ParseString(_, _, _)
ParseString(s, i, acc) ==
    IF i > Len(s) THEN ParseFail
    ELSE IF s[i] = Q THEN ParseOk(acc, i + 1)
    ELSE IF s[i] = BS
         THEN IF i + 1 > Len(s) THEN ParseFail
              ELSE IF s[i + 1] = "u"
              THEN IF i + 5 > Len(s) \/ UnicodeEscape(SubSeq(s, i + 2, i + 5)) = "<invalid>"
                   THEN ParseFail
                   ELSE ParseString(s, i + 6,
                                    Append(acc, UnicodeEscape(SubSeq(s, i + 2, i + 5))))
              ELSE IF Unescape(s[i + 1]) = "<invalid>" THEN ParseFail
              ELSE ParseString(s, i + 2, Append(acc, Unescape(s[i + 1])))
    ELSE IF s[i] \in ControlChars THEN ParseFail
    ELSE ParseString(s, i + 1, Append(acc, s[i]))

RECURSIVE DigitRun(_, _)
DigitRun(s, i) ==
    IF i <= Len(s) /\ s[i] \in DigitSet THEN DigitRun(s, i + 1) ELSE i

RECURSIVE ParseValue(_, _)
RECURSIVE ParseItems(_, _, _)
RECURSIVE ParseMembers(_, _, _)

\* JSONArray after '[' and a first value is due at i.
ParseItems(s, i, acc) ==
    LET r == ParseValue(s, i) IN
    IF ~r.ok THEN ParseFail
    ELSE LET j == SkipSpace(s, r.pos) IN
         IF j > Len(s) THEN ParseFail
         ELSE IF s[j] = "]" THEN ParseOk(JArr(Append(acc, r.val)), j + 1)
         ELSE IF s[j] = "," THEN ParseItems(s, SkipSpace(s, j + 1), Append(acc, r.val))
         ELSE ParseFail

\* JSONObject: a member's opening quote is due at i.
ParseMembers(s, i, acc) ==
    IF i > Len(s) \/ s[i] # Q THEN ParseFail
    ELSE LET k == ParseString(s, i + 1, <<>>) IN
         IF ~k.ok THEN ParseFail
         ELSE LET c == SkipSpace(s, k.pos) IN
              IF c > Len(s) \/ s[c] # ":" THEN ParseFail
              ELSE LET r == ParseValue(s, SkipSpace(s, c + 1)) IN
                   IF ~r.ok THEN ParseFail
                   ELSE LET j   == SkipSpace(s, r.pos)
                            new == DictSet(acc, k.val, r.val)
                        IN IF j > Len(s) THEN ParseFail
                           ELSE IF s[j] = "}" THEN ParseOk(JObj(new), j + 1)
                           ELSE IF s[j] = ","
                                THEN ParseMembers(s, SkipSpace(s, j + 1), new)
                           ELSE ParseFail

ParseValue(s, i) ==
    IF i > Len(s) THEN ParseFail
    ELSE IF s[i] = Q
         THEN LET r == ParseString(s, i + 1, <<>>) IN
              IF r.ok THEN ParseOk(JStr(r.val), r.pos) ELSE ParseFail
    ELSE IF s[i] = "["
         THEN LET j == SkipSpace(s, i + 1) IN
              IF j <= Len(s) /\ s[j] = "]" THEN ParseOk(JArr(<<>>), j + 1)
              ELSE ParseItems(s, j, <<>>)
    ELSE IF s[i] = "{"
         THEN LET j == SkipSpace(s, i + 1) IN
              IF j <= Len(s) /\ s[j] = "}" THEN ParseOk(JObj(<<>>), j + 1)
              ELSE ParseMembers(s, j, <<>>)
    ELSE IF s[i] = "0" THEN ParseOk(JNum(<<"0">>), i + 1)
    ELSE IF s[i] \in DigitSet
         THEN LET j == DigitRun(s, i) IN ParseOk(JNum(SubSeq(s, i, j - 1)), j)
    ELSE ParseFail

\* json.loads: one value, surrounded by whitespace only; ok = FALSE stands
\* for json.JSONDecodeError.
WholeText(s, r) ==
    IF r.ok /\ SkipSpace(s, r.pos) = Len(s) + 1 THEN r ELSE ParseFail

Loads(s) == WholeText(s, ParseValue(s, SkipSpace(s, 1)))

(***************************************************************************)
(* wetype_raw.py: the scanner and selector, read_raw_hotwords.             *)
(***************************************************************************)
\* remaining = text[search_start:search_start + 100000]
SearchWindow == 100000

\* data.decode('utf-8', errors='ignore')
Decode(bytes) == SelectSeq(bytes, LAMBDA b : b # BadByte)

\* [m.start() for m in re.finditer(r'hotWordList', text)], ascending.  The
\* key has no border, so its occurrences never overlap.
IsKeyAt(text, p) ==
    /\ p + Len(KeyName) - 1 <= Len(text)
    /\ \A k \in 1..Len(KeyName) : text[p + k - 1] = KeyName[k]

RECURSIVE Ascending(_)
Ascending(S) ==
    IF S = {} THEN <<>> ELSE <<Min(S)>> \o Ascending(S \ {Min(S)})

hotword_positions(text) == Ascending({p \in 1..Len(text) : IsKeyAt(text, p)})

\* text[search_start:search_start + window] for the occurrence at pos
Remaining(text, pos, window) ==
    LET search_start == pos + Len(KeyName)
        stop == IF search_start + window - 1 < Len(text)
                THEN search_start + window - 1 ELSE Len(text)
    IN SubSeq(text, search_start, stop)

\* remaining.find('['): the index of the first '[', 0 when there is none
FindBracket(remaining) ==
    LET S == {i \in 1..Len(remaining) : remaining[i] = "["}
    IN IF S = {} THEN 0 ELSE Min(S)

\* The loop body without the count: the first ']' ends the span.
MatchStepFirstClose(remaining, i, st) ==
    IF remaining[i] = "]"
    THEN [bracket_count |-> 0, json_end |-> i]
    ELSE st

\* One pass of the body of the loop over remaining[json_start:], at index
\* i, on the loop's state: bracket_count, and json_end (0 while not found).
MatchStep(remaining, i, st) ==
    IF remaining[i] = "["
    THEN [bracket_count |-> st.bracket_count + 1, json_end |-> 0]
    ELSE IF remaining[i] = "]"
         THEN IF st.bracket_count - 1 = 0
              THEN [bracket_count |-> 0, json_end |-> i]
              ELSE [bracket_count |-> st.bracket_count - 1, json_end |-> 0]
    ELSE st

\* The loop over the indices lo..hi in order, left at the break.  The range
\* is halved so that the evaluation nests only to the logarithm of its size.
RECURSIVE MatchLoop(_, _, _, _)
MatchLoop(remaining, lo, hi, st) ==
    IF lo > hi THEN st
    ELSE IF lo = hi THEN MatchStep(remaining, lo, st)
    ELSE LET mid  == (lo + hi) \div 2
             left == MatchLoop(remaining, lo, mid, st)
         IN IF left.json_end # 0 THEN left
            ELSE MatchLoop(remaining, mid + 1, hi, left)

\* The index of the ']' at which bracket_count returns to zero, 0 when it
\* never does.
MatchBracket(remaining, json_start) ==
    MatchLoop(remaining, json_start, Len(remaining),
              [bracket_count |-> 0, json_end |-> 0]).json_end

\* json_str = remaining[json_start:json_end], once both brackets are known:
\* [found, json]; found is FALSE where the code says continue.
SpanAt(remaining, bracket_start, json_end) ==
    IF bracket_start = 0 \/ json_end = 0
    THEN [found |-> FALSE, json |-> <<>>]
    ELSE [found |-> TRUE, json |-> SubSeq(remaining, bracket_start, json_end)]

SpanFrom(remaining, bracket_start) ==
    SpanAt(remaining, bracket_start,
           IF bracket_start = 0 THEN 0 ELSE MatchBracket(remaining, bracket_start))

SpanIn(remaining) == SpanFrom(remaining, FindBracket(remaining))

\* json_str of the occurrence at pos
JsonSpan(text, pos, window) == SpanIn(Remaining(text, pos, window))

\* json_str of every occurrence of the key, in the order of the scan
json_spans(text, positions, window_len) ==
    [i \in 1..Len(positions) |-> JsonSpan(text, positions[i], window_len)]

\* isinstance(hotwords[0], dict) and ('hw_id' in hotwords[0] or 'key' in
\* hotwords[0] or 'text' in hotwords[0])
IsHotwordFormat(hotwords) ==
    /\ IsDict(hotwords[1])
    /\ \/ HasField(hotwords[1], HW_ID)
       \/ HasField(hotwords[1], KEY)
       \/ HasField(hotwords[1], TEXT)

\* The body of the try block on the result r of json.loads: [ok, hotwords];
\* ok when the list is appended to all_hotwords.
Accept(r) ==
    IF /\ r.ok
       /\ r.val.t = "arr"
       /\ Len(r.val.v) > 0
       /\ IsHotwordFormat(r.val.v)
    THEN [ok |-> TRUE, hotwords |-> r.val.v]
    ELSE [ok |-> FALSE, hotwords |-> <<>>]

TryLoads(span) == Accept(IF span.found THEN Loads(span.json) ELSE ParseFail)

\* One pass of the loop over hotword_positions
Candidate(text, pos, window) == TryLoads(JsonSpan(text, pos, window))

\* all_hotwords after the loop over hotword_positions
Appended(c) == IF c.ok THEN <<c.hotwords>> ELSE <<>>

\* The loop with a decode failure ending the scan instead of being skipped.
CollectAbort(text, positions, window) ==
    IF \E i \in 1..Len(positions) : ~Candidate(text, positions[i], window).ok
    THEN <<>>
    ELSE [i \in 1..Len(positions) |-> Candidate(text, positions[i], window).hotwords]

RECURSIVE Collect(_, _, _)
Collect(text, positions, window) ==
    IF positions = <<>> THEN <<>>
    ELSE Appended(Candidate(text, Head(positions), window))
         \o Collect(text, Tail(positions), window)

all_hotwords(text, window) == Collect(text, hotword_positions(text), window)

\* max(all_hotwords, key=len): the first of the longest
RECURSIVE MaxByLen(_, _)
MaxByLen(best, rest) ==
    IF rest = <<>> THEN best
    ELSE MaxByLen(IF Len(Head(rest)) > Len(best) THEN Head(rest) ELSE best,
                  Tail(rest))

Select(all) == IF all # <<>> THEN MaxByLen(Head(all), Tail(all)) ELSE <<>>

ReadWindow(bytes, window) == Select(all_hotwords(Decode(bytes), window))

read_raw_hotwords(bytes) == ReadWindow(bytes, SearchWindow)

(***************************************************************************)
(* Python string operations the commands use.                              *)
(***************************************************************************)
UpperCase == <<"A", "B", "C", "D", "E", "F", "G", "H", "I", "J", "K", "L", "M",
               "N", "O", "P", "Q", "R", "S", "T", "U", "V", "W", "X", "Y", "Z">>
LowerCase == <<"a", "b", "c", "d", "e", "f", "g", "h", "i", "j", "k", "l", "m",
               "n", "o", "p", "q", "r", "s", "t", "u", "v", "w", "x", "y", "z">>

LowerChar(c) ==
    IF \E i \in 1..26 : UpperCase[i] = c
    THEN LowerCase[CHOOSE i \in 1..26 : UpperCase[i] = c]
    ELSE c

\* s.lower()
Lower(s) == [i \in 1..Len(s) |-> LowerChar(s[i])]

\* s.strip()
Strip(s) ==
    LET keep == {i \in 1..Len(s) : s[i] \notin StripSpace}
    IN IF keep = {} THEN <<>>
       ELSE SubSeq(s, Min(keep), CHOOSE i \in keep : \A j \in keep : j <= i)

\* sub in s
Contains(sub, s) ==
    \E i \in 1..(Len(s) - Len(sub) + 1) \cup {1} :
        /\ i + Len(sub) - 1 <= Len(s)
        /\ \A k \in 1..Len(sub) : s[i + k - 1] = sub[k]

\* hw.get(name, "")
Get(hw, name) == IF HasField(hw, name) THEN Field(hw, name) ELSE JStr(<<>>)

\* hw.get("key", "").strip() raises AttributeError unless hw is a dict whose
\* "key", when present, is a str.
CanStripKey(hw) == IsDict(hw) /\ IsStr(Get(hw, KEY))

StrippedKey(hw) == Strip(Get(hw, KEY).v)

(***************************************************************************)
(* The entry operations, as the command handlers of wetype_raw.py and      *)
(* wetype_rw.py write them inline (the two files hold the same code).      *)
(***************************************************************************)
\* new_hotword = {"hw_id": new_id, "key": trigger_key, "text": text}
new_hotword(new_id, trigger_key, text) ==
    JObj(<< <<HW_ID, JStr(new_id)>>, <<KEY, JStr(trigger_key)>>, <<TEXT, JStr(text)>> >>)

\* hotwords.append(new_hotword)
InsertLast(hotwords, hw) == hotwords \o <<hw>>

\* hotwords.insert(0, new_hotword)
Insert(hotwords, hw) == <<hw>> \o hotwords

\* [hw for hw in hotwords if hw.get("key", "") != trigger_key]
RemoveUnstripped(hotwords, trigger_key) ==
    SelectSeq(hotwords, LAMBDA hw : Get(hw, KEY).v # trigger_key)

\* [hw for hw in hotwords if hw.get("key", "").strip() != trigger_key]
Remove(hotwords, trigger_key) ==
    SelectSeq(hotwords, LAMBDA hw : StrippedKey(hw) # trigger_key)

\* The comprehension raises when an element is not such a dict.
RemoveRaises(hotwords) == \E i \in 1..Len(hotwords) : ~CanStripKey(hotwords[i])

\* keyword in key or keyword in text
MatchesCase(hw, keyword) ==
    \/ Contains(keyword, Get(hw, KEY).v)
    \/ Contains(keyword, Get(hw, TEXT).v)

\* keyword.lower() in key.lower() or keyword.lower() in text.lower()
Matches(hw, keyword) ==
    \/ Contains(Lower(keyword), Lower(Get(hw, KEY).v))
    \/ Contains(Lower(keyword), Lower(Get(hw, TEXT).v))

\* The test raises unless hw is a dict, its key is a str and, when the key
\* does not match, its text is a str.
MatchRaises(hw, keyword) ==
    \/ ~IsDict(hw)
    \/ ~IsStr(Get(hw, KEY))
    \/ /\ ~Contains(Lower(keyword), Lower(Get(hw, KEY).v))
       /\ ~IsStr(Get(hw, TEXT))

\* results of the loop of search_hotwords
Find(hotwords, keyword) == SelectSeq(hotwords, LAMBDA hw : Matches(hw, keyword))

FindRaises(hotwords, keyword) ==
    \E i \in 1..Len(hotwords) : MatchRaises(hotwords[i], keyword)

\* bool(x)
Truthy(x) == IF x.t = "num" THEN x.v # <<"0">> ELSE x.v # <<>>

\* The print loop of list_hotwords and search_hotwords raises on an element
\* that is no dict, whose text is no str, or whose key is truthy and no str.
PrintRaises(hotwords) ==
    \E i \in 1..Len(hotwords) :
        \/ ~IsDict(hotwords[i])
        \/ ~IsStr(Get(hotwords[i], TEXT))
        \/ Truthy(Get(hotwords[i], KEY)) /\ ~IsStr(Get(hotwords[i], KEY))

(***************************************************************************)
(* The store and the commands of wetype_raw.py.                            *)
(***************************************************************************)
VARIABLES
    data,   \* the bytes of the store file wetype.settings
    kv,     \* the value MMKV holds for "hotWordList" (wetype_rw.py reads it)
    now,    \* the clock, in milliseconds
    ncmd,   \* the number of commands run so far
    last,   \* what the last command did and reported
    segs,   \* the pieces a synthetic store buffer is built from
    window  \* the length of the search window after an occurrence of the key

vars == <<data, kv, now, ncmd, last, segs, window>>

\* The number of commands of one run of the model.
MaxCmds == 2

\* kv.set(hotwords_json, "hotWordList"): MMKV appends a record, the key, the
\* length bytes of the value and the value; the older records stay.
kv_set(bytes, hotwords_json) ==
    bytes \o KeyName \o <<BadByte, BadByte>> \o hotwords_json

\* subprocess.run(["killall", "WeType"], timeout=5) ends in one of these.
RestartOutcomes == {"exit0", "nonzero", "timeout", "error"}

\* restart_wetype() without its last except clause.
restart_wetype_uncaught(outcome) ==
    [ret |-> outcome # "error", raised |-> outcome = "error"]

\* restart_wetype(): its return value, and whether an exception leaves it.
restart_wetype(outcome) ==
    CASE outcome = "exit0"   -> [ret |-> TRUE,  raised |-> FALSE]
      [] outcome = "nonzero" -> [ret |-> TRUE,  raised |-> FALSE]
      [] outcome = "timeout" -> [ret |-> TRUE,  raised |-> FALSE]
      [] outcome = "error"   -> [ret |-> FALSE, raised |-> FALSE]

\* The record of a command: the store before it (pre), the collection it
\* read, whether it called kv.set and with which collection, the message it
\* printed, the count it reported, the entries it printed, the order of its
\* effects and how the restart ended; text is the second argument of add.
Report(cmd, arg, pre, read, wrote, written, msg, count, results, events, restart) ==
    [cmd |-> cmd, arg |-> arg, text |-> <<>>, pre |-> pre, read |-> read, wrote |-> wrote,
     written |-> written, msg |-> msg, count |-> count, results |-> results,
     events |-> events, restart |-> restart]

NoReport == Report("none", <<>>, <<>>, <<>>, FALSE, <<>>, "none", 0, <<>>, <<>>, "none")

\* The entries and stores the model starts from.
Foo  == <<"f", "o", "o">>
Bar  == <<"b", "a", "r">>
Junk == <<"j", "u", "n", "k", BadByte>>

EFoo  == JObj(<< <<KEY, JStr(Foo \o <<SP>>)>>, <<TEXT, JStr(<<"x">>)>> >>)
EBar  == JObj(<< <<KEY, JStr(Bar)>>, <<TEXT, JStr(<<"y">>)>> >>)
EFoo2 == JObj(<< <<HW_ID, JStr(<<"7">>)>>, <<KEY, JStr(<<SP>> \o Foo)>>,
                 <<TEXT, JStr(<<"z", NL, "B">>)>> >>)
ENoKey == JObj(<< <<TEXT, JStr(<<"f", "o", "o">>)>> >>)

StoreOf(hotwords) == kv_set(<<>>, Dumps(JArr(hotwords)))

InitStores ==
    << <<>>,
       Junk \o StoreOf(<<EFoo, EBar>>) \o Junk,
       StoreOf(<<EBar>>) \o StoreOf(<<EFoo, EBar>>),
       Junk \o KeyName \o Junk,
       StoreOf(<<EBar, JNum(<<"5">>)>>),
       StoreOf(<<EFoo2, ENoKey, EFoo>>),
       KeyName \o <<"[", "{">> \o StoreOf(<<EBar>>) >>

AddKeys   == {Foo}
AddTexts  == {<<"x">>, <<"y", "]">>}
DeleteKeys == {Foo, Bar, Foo \o <<SP>>}
Keywords  == {<<"B", "A", "R">>, <<"o">>}

Init ==
    /\ \E i \in 1..Len(InitStores) : data = InitStores[i]
    /\ kv = <<>>
    /\ now = 1
    /\ ncmd = 0
    /\ last = NoReport
    /\ segs = <<>>
    /\ window = SearchWindow

\* What a command leaves: the store, MMKV's value, the clock and its report.
Effect(bytes, value, clock, report) ==
    [data |-> bytes, kv |-> value, now |-> clock, last |-> report]

\* The state after a command is the effect eff of its handler.
Commit(eff) ==
    /\ ncmd' = ncmd + 1
    /\ data' = eff.data
    /\ kv' = eff.kv
    /\ now' = eff.now
    /\ last' = eff.last
    /\ UNCHANGED <<segs, window>>

\* The body of list_hotwords() once hotwords is read
ListBody(hotwords) ==
    IF hotwords = <<>>
    THEN Report("list", <<>>, data, hotwords, FALSE, <<>>, "no_data", 0, <<>>,
                <<"read">>, "none")
    ELSE IF PrintRaises(hotwords)
    THEN Report("list", <<>>, data, hotwords, FALSE, <<>>, "raised", 0, <<>>,
                <<"read">>, "none")
    ELSE Report("list", <<>>, data, hotwords, FALSE, <<>>, "listed", Len(hotwords),
                hotwords, <<"read">>, "none")

list_hotwords ==
    /\ ncmd < MaxCmds
    /\ Commit(Effect(data, kv, now, ListBody(read_raw_hotwords(data))))

\* The body of export_hotwords(output_file): the export file is not part of
\* the state.
ExportBody(hotwords) ==
    IF hotwords = <<>>
    THEN Report("export", <<>>, data, hotwords, FALSE, <<>>, "no_data", 0, <<>>,
                <<"read">>, "none")
    ELSE Report("export", <<>>, data, hotwords, FALSE, <<>>, "exported",
                Len(hotwords), hotwords, <<"read">>, "none")

export_hotwords ==
    /\ ncmd < MaxCmds
    /\ Commit(Effect(data, kv, now, ExportBody(read_raw_hotwords(data))))

\* get_hotwords_json(), the command json
JsonBody(hotwords) ==
    Report("json", <<>>, data, hotwords, FALSE, <<>>, "json", Len(hotwords),
           hotwords, <<"read">>, "none")

get_hotwords_json ==
    /\ ncmd < MaxCmds
    /\ Commit(Effect(data, kv, now, JsonBody(read_raw_hotwords(data))))

\* The end of search_hotwords(keyword): the results are printed.
SearchPrint(keyword, hotwords, results) ==
    IF results = <<>>
    THEN Report("search", keyword, data, hotwords, FALSE, <<>>, "no_match", 0,
                <<>>, <<"read">>, "none")
    ELSE IF PrintRaises(results)
    THEN Report("search", keyword, data, hotwords, FALSE, <<>>, "raised", 0, <<>>,
                <<"read">>, "none")
    ELSE Report("search", keyword, data, hotwords, FALSE, <<>>, "results",
                Len(results), results, <<"read">>, "none")

\* The body of search_hotwords(keyword) once hotwords is read
SearchBody(keyword, hotwords) ==
    IF hotwords = <<>>
    THEN Report("search", keyword, data, hotwords, FALSE, <<>>, "no_data", 0, <<>>,
                <<"read">>, "none")
    ELSE IF FindRaises(hotwords, keyword)
    THEN Report("search", keyword, data, hotwords, FALSE, <<>>, "raised", 0, <<>>,
                <<"read">>, "none")
    ELSE SearchPrint(keyword, hotwords, Find(hotwords, keyword))

search_hotwords(keyword) ==
    /\ ncmd < MaxCmds
    /\ Commit(Effect(data, kv, now, SearchBody(keyword, read_raw_hotwords(data))))

\* The write and what follows it, in add_hotword and delete_hotword:
\* kv.set(json.dumps(hotwords), "hotWordList"), the message, and then
\* restart_wetype(), whose result r is dropped.
WriteAndRestart(cmd, arg, hotwords, new_list, hotwords_json, msg, count, outcome, r) ==
    Effect(kv_set(data, hotwords_json), hotwords_json, now,
           Report(cmd, arg, data, hotwords, TRUE, new_list,
                  IF r.raised THEN "raised" ELSE msg, count, <<>>,
                  <<"read", "set", "restart">>, outcome))

\* The body of add_hotword(trigger_key, text) once hotwords is read, at time
\* ms, the restart ending in outcome.
AddWrite(trigger_key, text, hotwords, new_list, ms, outcome) ==
    [WriteAndRestart("add", trigger_key, hotwords, new_list, Dumps(JArr(new_list)),
                     "added", 0, outcome, restart_wetype(outcome))
     EXCEPT !.now = ms, !.last.text = text]

AddBody(trigger_key, text, ms, outcome, hotwords) ==
    AddWrite(trigger_key, text, hotwords,
             Insert(hotwords, new_hotword(IntStr(ms), trigger_key, text)),
             ms, outcome)

add_hotword(trigger_key, text, ms, outcome) ==
    /\ ncmd < MaxCmds
    /\ Commit(AddBody(trigger_key, text, ms, outcome, read_raw_hotwords(data)))

\* delete_hotword without the early return on an unchanged length.
DeleteWriteAlways(trigger_key, hotwords, kept, outcome) ==
    WriteAndRestart("delete", trigger_key, hotwords, kept, Dumps(JArr(kept)),
                    "deleted", Len(hotwords) - Len(kept), outcome,
                    restart_wetype(outcome))

\* The body of delete_hotword(trigger_key) once hotwords is read and
\* filtered, the restart ending in outcome.
DeleteWrite(trigger_key, hotwords, kept, outcome) ==
    IF Len(kept) = Len(hotwords)
    THEN Effect(data, kv, now,
                Report("delete", trigger_key, data, hotwords, FALSE, <<>>,
                       "not_found", 0, <<>>, <<"read">>, "none"))
    ELSE WriteAndRestart("delete", trigger_key, hotwords, kept, Dumps(JArr(kept)),
                         "deleted", Len(hotwords) - Len(kept), outcome,
                         restart_wetype(outcome))

DeleteBody(trigger_key, outcome, hotwords) ==
    IF RemoveRaises(hotwords)
    THEN Effect(data, kv, now,
                Report("delete", trigger_key, data, hotwords, FALSE, <<>>,
                       "raised", 0, <<>>, <<"read">>, "none"))
    ELSE DeleteWrite(trigger_key, hotwords, Remove(hotwords, trigger_key), outcome)

delete_hotword(trigger_key, outcome) ==
    /\ ncmd < MaxCmds
    /\ Commit(DeleteBody(trigger_key, outcome, read_raw_hotwords(data)))

Next ==
    \/ list_hotwords
    \/ export_hotwords
    \/ get_hotwords_json
    \/ \E keyword \in Keywords : search_hotwords(keyword)
    \/ \E trigger_key \in AddKeys, text \in AddTexts, ms \in {now, now + 1},
          outcome \in RestartOutcomes : add_hotword(trigger_key, text, ms, outcome)
    \/ \E trigger_key \in DeleteKeys, outcome \in RestartOutcomes :
          delete_hotword(trigger_key, outcome)

Spec == Init /\ [][Next]_vars
(***************************************************************************)
(* wetype_rw.py: the commands that read and write the value through MMKV.  *)
(***************************************************************************)
\* get_hotwords() on the string kv.getString returns, r being json.loads of
\* it: the decoded value, [] for no value and for a JSONDecodeError.
get_hotwords(hotwords_json, r) ==
    IF hotwords_json # <<>> /\ r.ok THEN r.val ELSE JArr(<<>>)

\* set_hotwords(hotwords): the string handed to kv.set.
set_hotwords(hotwords) == Dumps(JArr(hotwords))

\* What MMKV holds when a run of wetype_rw.py starts: nothing, what the
\* tools wrote, what another writer wrote with other separators and escapes,
\* a value that is no JSON, one that is no list, a list with a non-dict.
EOtherWriter ==
    <<"[", "{", Q, "h", "w", "_", "i", "d", Q, ":", Q, "7", Q, ",",
      Q, "k", "e", "y", Q, ":", Q, "a", BS, "/", "b", Q, ",",
      Q, "t", "e", "x", "t", Q, ":", SP, Q, "q", BS, Q, BS, BS,
      BS, "u", "0", "0", "4", "1", BS, "u", "0", "0", "5", "d", BS, "n", Q, "}", "]">>

InitValues ==
    { <<>>,
      Dumps(JArr(<<EFoo, EBar>>)),
      EOtherWriter,
      <<"[", "{">>,
      Dumps(JObj(<< <<KEY, JStr(<<"x">>)>> >>)),
      Dumps(JArr(<<EBar, JNum(<<"5">>)>>)) }

RwKeys == {<<"a", "/", "b">>}
RwTexts == {<<"q", Q, BS, "n">>, <<"[", NL, "<01>", "]">>}
RwDeleteKeys == {<<"a", "/", "b">>, Bar}
RwKeywords == {<<"Q">>}

\* The decoded content of the files import_hotwords is given.
ImportFiles ==
    { JObj(<< <<<<"h", "o", "t", "w", "o", "r", "d", "s">>,
               JArr(<<EFoo2, new_hotword(<<"1">>, <<"t", NL>>, <<BS, Q, "\t">>)>>)>> >>),
      JArr(<<EBar>>),
      JObj(<< <<KEY, JStr(<<"x">>)>> >>) }

\* A command of wetype_rw.py that stops without a write.
RwStop(cmd, arg, hotwords, msg, count, results) ==
    Effect(data, kv, now,
           Report(cmd, arg, kv, hotwords, FALSE, <<>>, msg, count, results,
                  <<"read">>, "none"))

\* A command of wetype_rw.py that calls set_hotwords(new_list).
RwSet(cmd, arg, hotwords, new_list, msg, count) ==
    Effect(data, set_hotwords(new_list), now,
           Report(cmd, arg, kv, hotwords, TRUE, new_list, msg, count, <<>>,
                  <<"read", "set">>, "none"))

\* add_hotword(key, text) once hotwords is read: a value that is no list has
\* no insert.
RwAddBody(key, text, ms, hotwords) ==
    IF hotwords.t # "arr"
    THEN [RwStop("add", key, hotwords, "raised", 0, <<>>) EXCEPT !.now = ms]
    ELSE [RwSet("add", key, hotwords.v,
                Insert(hotwords.v, new_hotword(IntStr(ms), key, text)), "added", 0)
          EXCEPT !.now = ms, !.last.text = text]

rw_add_hotword(key, text, ms) ==
    /\ ncmd < MaxCmds
    /\ Commit(RwAddBody(key, text, ms, get_hotwords(kv, Loads(kv))))

\* delete_hotword(key) once hotwords is read: the comprehension raises on a
\* non-empty dict, whose elements are its keys.
RwDeleteBody(key, hotwords) ==
    IF hotwords.t # "arr" \/ RemoveRaises(hotwords.v)
    THEN RwStop("delete", key, hotwords, "raised", 0, <<>>)
    ELSE IF Len(Remove(hotwords.v, key)) = Len(hotwords.v)
    THEN RwStop("delete", key, hotwords.v, "not_found", 0, <<>>)
    ELSE RwSet("delete", key, hotwords.v, Remove(hotwords.v, key), "deleted",
               Len(hotwords.v) - Len(Remove(hotwords.v, key)))

rw_delete_hotword(key) ==
    /\ ncmd < MaxCmds
    /\ Commit(RwDeleteBody(key, get_hotwords(kv, Loads(kv))))

\* import_hotwords(input_file), file_data being json.load of the file.
ImportBody(file_data) ==
    IF file_data.t = "obj" /\ HasField(file_data, <<"h", "o", "t", "w", "o", "r", "d", "s">>)
    THEN RwSet("import", <<>>, <<>>,
               Field(file_data, <<"h", "o", "t", "w", "o", "r", "d", "s">>).v, "imported",
               Len(Field(file_data, <<"h", "o", "t", "w", "o", "r", "d", "s">>).v))
    ELSE IF file_data.t = "arr"
    THEN RwSet("import", <<>>, <<>>, file_data.v, "imported", Len(file_data.v))
    ELSE RwStop("import", <<>>, <<>>, "bad_format", 0, <<>>)

import_hotwords(file_data) ==
    /\ ncmd < MaxCmds
    /\ Commit(ImportBody(file_data))

\* search_hotwords(keyword) once hotwords is read.
RwSearchBody(keyword, hotwords) ==
    IF hotwords.t # "arr" \/ FindRaises(hotwords.v, keyword)
    THEN RwStop("search", keyword, hotwords, "raised", 0, <<>>)
    ELSE IF Find(hotwords.v, keyword) = <<>>
    THEN RwStop("search", keyword, hotwords.v, "no_match", 0, <<>>)
    ELSE IF PrintRaises(Find(hotwords.v, keyword))
    THEN RwStop("search", keyword, hotwords.v, "raised", 0, <<>>)
    ELSE RwStop("search", keyword, hotwords.v, "results",
                Len(Find(hotwords.v, keyword)), Find(hotwords.v, keyword))

rw_search_hotwords(keyword) ==
    /\ ncmd < MaxCmds
    /\ Commit(RwSearchBody(keyword, get_hotwords(kv, Loads(kv))))

\* list_hotwords() once hotwords is read: the count, then the entries.
RwListBody(hotwords) ==
    IF hotwords.t # "arr" \/ PrintRaises(hotwords.v)
    THEN RwStop("list", <<>>, hotwords, "raised", 0, <<>>)
    ELSE RwStop("list", <<>>, hotwords.v, "listed", Len(hotwords.v), hotwords.v)

rw_list_hotwords ==
    /\ ncmd < MaxCmds
    /\ Commit(RwListBody(get_hotwords(kv, Loads(kv))))

InitRW ==
    /\ data = <<>>
    /\ kv \in InitValues
    /\ now = 1
    /\ ncmd = 0
    /\ last = NoReport
    /\ segs = <<>>
    /\ window = SearchWindow

NextRW ==
    \/ rw_list_hotwords
    \/ \E keyword \in RwKeywords : rw_search_hotwords(keyword)
    \/ \E key \in RwKeys, text \in RwTexts, ms \in {now, now + 1} :
           rw_add_hotword(key, text, ms)
    \/ \E key \in RwDeleteKeys : rw_delete_hotword(key)
    \/ \E file_data \in ImportFiles : import_hotwords(file_data)

SpecRW == InitRW /\ [][NextRW]_vars

(***************************************************************************)
(* Synthetic store buffers: pieces with and without the key, with arrays   *)
(* that decode and arrays that do not, put together in any order, and      *)
(* read_raw_hotwords applied to each buffer.                               *)
(***************************************************************************)
\* The number of pieces of a buffer.
MaxSegs == 2

EOther == JObj(<< <<<<"z">>, JStr(<<"x">>)>> >>)

Segments ==
    << Junk,
       StoreOf(<<EBar>>),
       StoreOf(<<EFoo, EBar>>),
       StoreOf(<<EBar, EFoo>>),
       KeyName \o Junk,
       KeyName \o <<"[", "{">>,
       StoreOf(<<JNum(<<"5">>), EBar, EFoo>>),
       StoreOf(<<EBar, JNum(<<"5">>), JArr(<<EFoo>>)>>),
       StoreOf(<<EOther, EOther, EOther>>),
       KeyName \o <<"[", "]", SP>> >>

RECURSIVE Flatten(_)
Flatten(ids) ==
    IF ids = <<>> THEN <<>> ELSE Segments[Head(ids)] \o Flatten(Tail(ids))

InsertAt(ids, k, i) == SubSeq(ids, 1, k - 1) \o <<i>> \o SubSeq(ids, k, Len(ids))
RemoveAt(ids, k) == SubSeq(ids, 1, k - 1) \o SubSeq(ids, k + 1, Len(ids))

\* The buffer becomes that of the pieces ids and is read: the report holds
\* the piece put in or taken out (arg), the result on the buffer before
\* (results) and the result on the new buffer (read).
Rescan(cmd, piece, bytes, ids, hotwords) ==
    /\ segs' = ids
    /\ data' = bytes
    /\ last' = Report(cmd, piece, data, hotwords, FALSE, <<>>, "scanned",
                      Len(hotwords), last.read, <<"read">>, "none")
    /\ UNCHANGED <<kv, now, ncmd, window>>

InsertSegment(i, k) ==
    /\ Len(segs) < MaxSegs
    /\ Rescan("insert", Segments[i], Flatten(InsertAt(segs, k, i)), InsertAt(segs, k, i),
              read_raw_hotwords(Flatten(InsertAt(segs, k, i))))

RemoveSegment(k) ==
    /\ Rescan("remove", Segments[segs[k]], Flatten(RemoveAt(segs, k)), RemoveAt(segs, k),
              read_raw_hotwords(Flatten(RemoveAt(segs, k))))

InitScan ==
    /\ data = <<>>
    /\ kv = <<>>
    /\ now = 1
    /\ ncmd = 0
    /\ last = NoReport
    /\ segs = <<>>
    /\ window = SearchWindow

NextScan ==
    \/ \E i \in 1..Len(Segments), k \in 1..(Len(segs) + 1) : InsertSegment(i, k)
    \/ \E k \in 1..Len(segs) : RemoveSegment(k)

SpecScan == InitScan /\ [][NextScan]_vars

(***************************************************************************)
(* The search window.  The program's window is SearchWindow characters;    *)
(* the buffers here are far shorter, so the scan is also run with windows  *)
(* short enough to end inside them, before the '[' or between the '[' and  *)
(* its ']'.                                                                *)
(***************************************************************************)
\* The number of pieces of a buffer.
MaxPieces == 2

\* Windows that end inside the modelled buffers.
ShortWindow == 8
LongWindow == 40

Windows == {ShortWindow, LongWindow, SearchWindow}

EKey == JObj(<< <<KEY, JStr(<<"k">>)>> >>)

Padding == <<".", ".", ".", ".", ".", "]", ".", ".", ".", ".",
             ".", ".", ".", ".", ".", ".", ".", ".", ".", ".">>

\* An array, an array with arrays inside, an array with a ']' inside a
\* string, two '[' that are never closed, the key with no '[' near it, and
\* an array after a ']' that closes nothing.
Pieces ==
    << StoreOf(<<EKey>>),
       StoreOf(<<EKey, JArr(<<JArr(<<>>), EKey>>)>>),
       StoreOf(<<JObj(<< <<KEY, JStr(<<"]">>)>> >>)>>),
       KeyName \o <<"[", "[">>,
       KeyName \o Padding,
       KeyName \o <<"]", SP>> \o Dumps(JArr(<<EKey>>)) >>

RECURSIVE Join(_)
Join(ids) == IF ids = <<>> THEN <<>> ELSE Pieces[Head(ids)] \o Join(Tail(ids))

\* The loop of read_raw_hotwords over the buffer of the pieces ids: the
\* report holds json_str of each occurrence (results), all_hotwords
\* (written) and the list returned (read).
WindowScan(cmd, ids, bytes, spans, all) ==
    /\ segs' = ids
    /\ data' = bytes
    /\ last' = Report(cmd, <<>>, <<>>, Select(all), FALSE, all, "scanned",
                      Len(all), spans, <<"read">>, "none")
    /\ UNCHANGED <<kv, now, ncmd, window>>

ScanBuffer(cmd, ids, bytes, text) ==
    WindowScan(cmd, ids, bytes,
               json_spans(text, hotword_positions(text), window),
               all_hotwords(text, window))

InsertPiece(i, k) ==
    /\ Len(segs) < MaxPieces
    /\ ScanBuffer("scan_insert", InsertAt(segs, k, i), Join(InsertAt(segs, k, i)),
                  Decode(Join(InsertAt(segs, k, i))))

RemovePiece(k) ==
    /\ ScanBuffer("scan_remove", RemoveAt(segs, k), Join(RemoveAt(segs, k)),
                  Decode(Join(RemoveAt(segs, k))))

InitWindow ==
    /\ data = <<>>
    /\ kv = <<>>
    /\ now = 1
    /\ ncmd = 0
    /\ last = NoReport
    /\ segs = <<>>
    /\ window \in Windows

NextWindow ==
    \/ \E i \in 1..Len(Pieces), k \in 1..(Len(segs) + 1) : InsertPiece(i, k)
    \/ \E k \in 1..Len(segs) : RemovePiece(k)

SpecWindow == InitWindow /\ [][NextWindow]_vars

(***************************************************************************)
(* Properties.                                                             *)
(***************************************************************************)
\* Equality of JSON values, by kind first.
RECURSIVE SameValue(_, _)
SameValue(a, b) ==
    /\ a.t = b.t
    /\ Len(a.v) = Len(b.v)
    /\ CASE a.t = "arr" -> \A i \in 1..Len(a.v) : SameValue(a.v[i], b.v[i])
         [] a.t = "obj" -> \A i \in 1..Len(a.v) :
                              /\ a.v[i][1] = b.v[i][1]
                              /\ SameValue(a.v[i][2], b.v[i][2])
         [] OTHER       -> a.v = b.v

SameList(xs, ys) == SameValue(JArr(xs), JArr(ys))

\* An entry: a map whose trigger key and body text, where present, are strings.
IsEntry(hw) == IsDict(hw) /\ IsStr(Get(hw, KEY)) /\ IsStr(Get(hw, TEXT))
IsEntryCollection(hotwords) == \A i \in 1..Len(hotwords) : IsEntry(hotwords[i])

\* The elements of xs at the indices I, in their order in xs.
Nth(I, k) == CHOOSE i \in I : Cardinality({j \in I : j <= i}) = k
SubAt(xs, I) == [k \in 1..Cardinality(I) |-> xs[Nth(I, k)]]

\* The occurrences of the key in the store bytes whose candidate is accepted.
ValidAt(bytes) ==
    {p \in 1..Len(Decode(bytes)) :
        IsKeyAt(Decode(bytes), p) /\ Candidate(Decode(bytes), p, SearchWindow).ok}

\* The list an occurrence of the key decodes to, <<>> when its span is not
\* found or is no JSON list.
DecodedAt(text, p) ==
    IF JsonSpan(text, p, SearchWindow).found
       /\ Loads(JsonSpan(text, p, SearchWindow).json).ok
       /\ Loads(JsonSpan(text, p, SearchWindow).json).val.t = "arr"
    THEN Loads(JsonSpan(text, p, SearchWindow).json).val.v
    ELSE <<>>

HasRecognizedField(hw) ==
    HasField(hw, HW_ID) \/ HasField(hw, KEY) \/ HasField(hw, TEXT)

\* A valid candidate in the sense of the specification: a non-empty list,
\* every element a map, a recognized field present in the first.
IsValidList(xs) ==
    /\ xs # <<>>
    /\ \A i \in 1..Len(xs) : IsDict(xs[i])
    /\ HasRecognizedField(xs[1])

\* A candidate the code accepts: a non-empty list whose first element is a
\* map with a recognized field.
IsAcceptedList(xs) ==
    /\ xs # <<>>
    /\ IsDict(xs[1])
    /\ HasRecognizedField(xs[1])

KeyOffsets(bytes) == {p \in 1..Len(Decode(bytes)) : IsKeyAt(Decode(bytes), p)}

ValidOffsets(bytes) ==
    {p \in KeyOffsets(bytes) : IsValidList(DecodedAt(Decode(bytes), p))}

AcceptedOffsets(bytes) ==
    {p \in KeyOffsets(bytes) : IsAcceptedList(DecodedAt(Decode(bytes), p))}

\* hotwords is the list at one of the offsets V of bytes, the longest
\* there and the earliest of the longest.
IsFirstLongest(hotwords, bytes, V) ==
    \E p \in V :
        /\ SameList(hotwords, DecodedAt(Decode(bytes), p))
        /\ \A q \in V :
              \/ Len(DecodedAt(Decode(bytes), q)) < Len(hotwords)
              \/ Len(DecodedAt(Decode(bytes), q)) = Len(hotwords) /\ p <= q

\* C1 (as claimed): on every buffer with a valid candidate the result is a
\* valid candidate, the longest and the earliest of the longest, and putting
\* in or taking out a piece whose occurrence is no valid candidate leaves
\* the result as it was while a valid candidate exists before and after.
C1_SelectsValidMaximal ==
    last.cmd \in {"insert", "remove"} =>
        /\ ValidOffsets(data) # {} =>
              IsFirstLongest(last.read, data, ValidOffsets(data))
        /\ (/\ ValidOffsets(last.arg) = {}
            /\ ValidOffsets(data) # {}
            /\ ValidOffsets(last.pre) # {}) => SameList(last.read, last.results)

\* The same with the validity test the code applies, which looks at the
\* first element only: this holds of read_raw_hotwords.
ScanSelectsFirstLongestAccepted ==
    last.cmd \in {"insert", "remove"} =>
        /\ AcceptedOffsets(data) = {} <=> last.read = <<>>
        /\ AcceptedOffsets(data) # {} =>
              IsFirstLongest(last.read, data, AcceptedOffsets(data))
        /\ (/\ AcceptedOffsets(last.arg) = {}
            /\ AcceptedOffsets(data) # {}
            /\ AcceptedOffsets(last.pre) # {}) => SameList(last.read, last.results)

\* C2 (as claimed): the most recent encoding is authoritative: after a
\* command that wrote, the next read returns the collection written, and
\* after a delete that wrote, no entry read has the deleted trigger key.
C2_MostRecentAuthoritative ==
    last.wrote =>
        /\ SameList(read_raw_hotwords(data), last.written)
        /\ last.cmd = "delete" =>
              \A i \in 1..Len(read_raw_hotwords(data)) :
                  ~(/\ CanStripKey(read_raw_hotwords(data)[i])
                    /\ StrippedKey(read_raw_hotwords(data)[i]) = last.arg)

\* C3: the restart is signalled only after kv.set, and however it ends the
\* store holds the value written and the command ends with its message.
C3_RestartLeavesCommit ==
    last.restart # "none" =>
        /\ last.wrote
        /\ last.events = <<"read", "set", "restart">>
        /\ data = last.pre \o KeyName \o <<BadByte, BadByte>> \o Dumps(JArr(last.written))
        /\ kv = Dumps(JArr(last.written))
        /\ last.msg \in {"added", "deleted"}

C3_Witness ==
    /\ last.restart = "error"
    /\ last.cmd = "delete"
    /\ last.wrote
    /\ Len(data) > Len(last.pre)

C5_EveryElementIsMap ==
    \A i \in 1..Len(last.read) :
        /\ IsDict(last.read[i])
        /\ i = 1 => \/ HasField(last.read[1], HW_ID)
                    \/ HasField(last.read[1], KEY)
                    \/ HasField(last.read[1], TEXT)

\* C6: delete on a collection of entries keeps, in order, exactly the
\* entries whose stripped key differs from the query taken literally, writes
\* them when any was removed, and reports the number removed.
C6_RemoveFiltersByStrippedKey ==
    (last.cmd = "delete" /\ IsEntryCollection(last.read)) =>
        LET keep == {i \in 1..Len(last.read) :
                        Strip(Get(last.read[i], KEY).v) # last.arg}
        IN /\ last.wrote <=> Cardinality(keep) < Len(last.read)
           /\ last.wrote =>
                 /\ SameList(last.written, SubAt(last.read, keep))
                 /\ last.count = Len(last.read) - Len(last.written)
                 /\ last.count = Len(last.read) - Cardinality(keep)
           /\ (last.pre = InitStores[2] /\ last.arg = Foo) =>
                 /\ SameList(last.written, <<EBar>>)
                 /\ last.count = 1
           /\ last.arg = Foo \o <<SP>> => ~last.wrote

C6_Witness ==
    /\ last.cmd = "delete"
    /\ IsEntryCollection(last.read)
    /\ last.wrote
    /\ last.count = 2
    /\ Len(last.written) = 1

\* C7: delete of a key no entry has writes nothing, signals no restart,
\* reports not found with nothing removed and leaves store and collection
\* as they were.
C7_RemoveAbsentChangesNothing ==
    (/\ last.cmd = "delete"
     /\ IsEntryCollection(last.read)
     /\ \A i \in 1..Len(last.read) : Strip(Get(last.read[i], KEY).v) # last.arg) =>
        /\ ~last.wrote
        /\ last.msg = "not_found"
        /\ last.count = 0
        /\ last.restart = "none"
        /\ last.events = <<"read">>
        /\ data = last.pre
        /\ SameList(Remove(last.read, last.arg), last.read)

C7_Witness ==
    /\ last.cmd = "delete"
    /\ last.msg = "not_found"
    /\ Len(last.read) = 2
    /\ last.arg = Foo \o <<SP>>

\* C8: add writes the collection read with the new entry before it, whatever
\* keys the collection holds.
C8_InsertPrepends ==
    last.cmd = "add" =>
        /\ last.wrote
        /\ last.msg = "added"
        /\ Len(last.written) = Len(last.read) + 1
        /\ IsDict(last.written[1])
        /\ SameValue(Get(last.written[1], KEY), JStr(last.arg))
        /\ SameValue(Get(last.written[1], TEXT), JStr(last.text))
        /\ \A i \in 1..Len(last.read) : SameValue(last.written[i + 1], last.read[i])
        /\ data = last.pre \o KeyName \o <<BadByte, BadByte>> \o Dumps(JArr(last.written))

C8_Witness ==
    /\ last.cmd = "add"
    /\ last.wrote
    /\ Len(last.read) >= 2
    /\ \E i \in 1..Len(last.read) :
          IsEntry(last.read[i]) /\ Strip(Get(last.read[i], KEY).v) = last.arg

\* The characters json.dumps writes as an escape.
Escaped == {Q, BS, NL, "\t", "\r", "\f", "<BS>", "<01>"}

HasEscaped(str) == \E i \in 1..Len(str) : str[i] \in Escaped

\* C9: after every write of wetype_rw.py, decoding the string the encoder
\* produced yields the collection that was encoded: the same count and, at
\* every position, the same element, so the same trigger key, the same body
\* text and the same hw_id.
C9_RoundTrip ==
    last.wrote =>
        /\ get_hotwords(kv, Loads(kv)).t = "arr"
        /\ Len(get_hotwords(kv, Loads(kv)).v) = Len(last.written)
        /\ \A i \in 1..Len(last.written) :
              /\ SameValue(get_hotwords(kv, Loads(kv)).v[i], last.written[i])
              /\ IsEntry(last.written[i]) =>
                    /\ Get(get_hotwords(kv, Loads(kv)).v[i], KEY).v = Get(last.written[i], KEY).v
                    /\ Get(get_hotwords(kv, Loads(kv)).v[i], TEXT).v = Get(last.written[i], TEXT).v
                    /\ Get(get_hotwords(kv, Loads(kv)).v[i], HW_ID).v = Get(last.written[i], HW_ID).v

\* A collection read from another writer's value is written back with a new
\* entry, and both hold characters the encoder escapes.
C9_Witness ==
    /\ last.wrote
    /\ last.cmd = "add"
    /\ Len(last.written) = 2
    /\ HasEscaped(Get(last.written[1], TEXT).v)
    /\ HasEscaped(Get(last.written[2], TEXT).v)
    /\ Get(last.written[2], HW_ID).v = <<"7">>
    /\ Loads(kv).ok

\* C10: search on a collection of entries prints, in order, exactly the
\* entries whose key or text holds the keyword without regard to case, and
\* changes nothing.
C10_FindMatchesIgnoringCase ==
    (last.cmd = "search" /\ IsEntryCollection(last.read)) =>
        LET hit == {i \in 1..Len(last.read) :
                       \/ Contains(Lower(last.arg), Lower(Get(last.read[i], KEY).v))
                       \/ Contains(Lower(last.arg), Lower(Get(last.read[i], TEXT).v))}
        IN /\ SameList(last.results, SubAt(last.read, hit))
           /\ last.count = Cardinality(hit)
           /\ ~last.wrote
           /\ data = last.pre
           /\ (last.pre = kv_set(InitStores[2], Dumps(JArr(<<EBar>>)))
               /\ last.arg = <<"B", "A", "R">>) => SameList(last.results, <<EBar>>)

C10_Witness ==
    /\ last.cmd = "search"
    /\ last.pre = kv_set(InitStores[2], Dumps(JArr(<<EBar>>)))
    /\ last.arg = <<"B", "A", "R">>
    /\ last.msg = "results"
    /\ Len(last.results) = 1

\* The last index of the window of the occurrence at p.
WindowEnd(text, p) ==
    IF p + Len(KeyName) + window - 1 < Len(text)
    THEN p + Len(KeyName) + window - 1 ELSE Len(text)

\* The index in text of the first '[' of the window of the occurrence at p,
\* 0 when the window holds none.
FirstOpen(text, p) ==
    IF \E i \in (p + Len(KeyName))..WindowEnd(text, p) : text[i] = "["
    THEN Min({i \in (p + Len(KeyName))..WindowEnd(text, p) : text[i] = "["})
    ELSE 0

\* The nesting depth after the characters a..b: the '[' less the ']'.
Depth(text, a, b) ==
    Cardinality({i \in a..b : text[i] = "["}) - Cardinality({i \in a..b : text[i] = "]"})

\* The first ']' of the window at which the depth counted from the '[' at b
\* is zero, 0 when there is none.
ClosingOf(text, p, b) ==
    IF \E e \in b..WindowEnd(text, p) : text[e] = "]" /\ Depth(text, b, e) = 0
    THEN Min({e \in b..WindowEnd(text, p) : text[e] = "]" /\ Depth(text, b, e) = 0})
    ELSE 0

\* The span of the occurrence at p is sp: none when the window holds no
\* '[' or the depth does not return to zero in it, else the characters from
\* the first '[' to the ']' that returns the depth to zero.
IsBalancedSpan(text, p, sp) ==
    IF FirstOpen(text, p) = 0 \/ ClosingOf(text, p, FirstOpen(text, p)) = 0
    THEN ~sp.found
    ELSE /\ sp.found
         /\ sp.json = SubSeq(text, FirstOpen(text, p),
                             ClosingOf(text, p, FirstOpen(text, p)))

\* C11: every occurrence of the key has its span taken from the first '['
\* of its window to the ']' that returns the nesting depth to zero; an
\* occurrence whose depth does not return to zero in the window gives no
\* span and nothing to decode, and the occurrences after it are scanned all
\* the same: the candidates collected are those of all spans that decode.
C11_SpanIsBalanced ==
    last.cmd \in {"scan_insert", "scan_remove"} =>
        /\ Len(last.results) = Cardinality(KeyOffsets(data))
        /\ \A i \in 1..Len(last.results) :
              IsBalancedSpan(Decode(data), Nth(KeyOffsets(data), i), last.results[i])
        /\ Len(last.written) =
              Cardinality({i \in 1..Len(last.results) : TryLoads(last.results[i]).ok})
        /\ last.read = <<>> <=> last.written = <<>>

\* The window of one occurrence ends between its '[' and the closing ']',
\* and a later occurrence gives the list returned.
C11_Witness ==
    /\ last.cmd = "scan_insert"
    /\ window = LongWindow
    /\ Len(last.results) = 2
    /\ FirstOpen(Decode(data), Nth(KeyOffsets(data), 1)) # 0
    /\ ~last.results[1].found
    /\ last.results[2].found
    /\ \E i \in 1..Len(last.results[2].json) : last.results[2].json[i] = "["  /\ i > 1
    /\ last.read # <<>>

====
